---- MODULE Spec2Model ----
(***************************************************************************)
(* Model of insteon_mqtt/db/Device.py: the all link database of one        *)
(* Insteon device, mirrored locally and modified on the device through     *)
(* asynchronous write exchanges.                                           *)
(*                                                                         *)
(* Python dicts keep insertion order, so `entries` and `unused` are        *)
(* sequences of DeviceEntry records with pairwise distinct mem_loc.        *)
(* `groups` maps every group number to its list of entries; a missing key  *)
(* and an empty list are the same thing to every reader in Device.py.      *)
(* The 3 data bytes of an entry are not modelled: no decision depends on   *)
(* them.                                                                   *)
(***************************************************************************)
EXTENDS Integers, Sequences, FiniteSets, TLC

\* ------------------------------------------------------------------ bounds
MaxPeer == 2
MaxGroup == 1
MaxLocs == 2
MaxLocal == 2
MaxReqs == 2
MaxDelta == 1

\* Each record is 8 bytes (Device.py line 581).
RecWidth == 8

Peers == 1..MaxPeer
Groups == 1..MaxGroup
Rids == 1..(MaxReqs + 1)
\* A database delta that is not None.
Deltas == {[val |-> i] : i \in 1..MaxDelta}
\* Memory goes high -> low.  The addresses a download can report.
TopLoc == RecWidth * (MaxLocs + MaxReqs + 1)
LocalLocs == {TopLoc - RecWidth * i : i \in 0..(MaxLocs - 1)}

VARIABLES
    delta,      \* self.delta: None or the device's revision number
    entries,    \* self.entries: mem_loc -> DeviceEntry, in use
    unused,     \* self.unused: mem_loc -> DeviceEntry, not in use
    groups,     \* self.groups: group -> [DeviceEntry]
    mem_locs,   \* self._mem_locs
    pending,    \* self._pending
    save_path,  \* self.save_path is set
    saved,      \* the file at save_path: NoDoc or a document
    transport,  \* the exchanges (DeviceDbModify handlers) the protocol holds
    remote,     \* the link table in the device's memory
    nextRid,    \* number of the next add/delete request
    started,    \* per request: how its start went, and whether deferred
    snap,       \* per request in flight: the record store when it started
    ncalls,     \* per request: number of on_done calls made
    nwrites,    \* per request: number of writes handed to the transport
    last,       \* what the latest step did
    nLocal      \* number of local calls (add_entry, clear) made

vars == <<delta, entries, unused, groups, mem_locs, pending, save_path, saved,
          transport, remote, nextRid, started, snap, ncalls, nwrites, last>>
allvars == <<vars, nLocal>>

None == [none |-> TRUE]
NoDoc == [nodoc |-> TRUE]
Marker == [op |-> "marker"]
NoReq == [op |-> "none", rid |-> 0]

\* ------------------------------------------------------------- dict helpers
Keys(d) == {d[i].mem_loc : i \in DOMAIN d}
Values(d) == {d[i] : i \in DOMAIN d}
Get(d, k) == IF k \in Keys(d)
             THEN d[CHOOSE i \in DOMAIN d : d[i].mem_loc = k]
             ELSE None
DictSet(d, e) == IF e.mem_loc \in Keys(d)
                 THEN [i \in DOMAIN d |->
                          IF d[i].mem_loc = e.mem_loc THEN e ELSE d[i]]
                 ELSE Append(d, e)
DictPop(d, k) == SelectSeq(d, LAMBDA x : x.mem_loc # k)
SetMax(S) == CHOOSE x \in S : \A y \in S : y <= x
SetMin(S) == CHOOSE x \in S : \A y \in S : x <= y
RemoveAt(q, i) == [j \in 1..(Len(q) - 1) |-> IF j < i THEN q[j] ELSE q[j + 1]]

\* ------------------------------------------------------------- DeviceEntry
MkEntry(a, g, c, m, u, l) ==
    [addr |-> a, group |-> g, is_controller |-> c, mem_loc |-> m,
     in_use |-> u, is_last_rec |-> l]

\* The link an entry (or an add request) is for: peer, group and role.
SameLink(a, b) ==
    a.addr = b.addr /\ a.group = b.group /\ a.is_controller = b.is_controller

\* DeviceEntry.__eq__ as used by `entry not in responders`.
EntryEq(a, b) == a.addr = b.addr /\ a.mem_loc = b.mem_loc

\* DeviceEntry.update_from: overwrite peer, group, role; mark in use.
update_from(e, a, g, c) ==
    [e EXCEPT !.addr = a, !.group = g, !.is_controller = c, !.in_use = TRUE]

\* DeviceEntry.to_json / from_json
EntryToJson(e) ==
    [addr |-> e.addr, group |-> e.group, mem_loc |-> e.mem_loc,
     db_flags |-> [in_use |-> e.in_use, is_controller |-> e.is_controller,
                   is_last_rec |-> e.is_last_rec]]
EntryFromJson(d) ==
    MkEntry(d.addr, d.group, d.db_flags.is_controller, d.mem_loc,
            d.db_flags.in_use, d.db_flags.is_last_rec)

\* ------------------------------------------------------- the object state
\* The operators below take the whole state as a record s and return the
\* state after the call, so that a handler's synchronous call chain is one
\* step.
Cur == [delta |-> delta, entries |-> entries, unused |-> unused,
        groups |-> groups, mem_locs |-> mem_locs, pending |-> pending,
        save_path |-> save_path, saved |-> saved, transport |-> transport,
        remote |-> remote, nextRid |-> nextRid, started |-> started,
        snap |-> snap, ncalls |-> ncalls, nwrites |-> nwrites, last |-> last]

Becomes0(t) ==
    /\ delta = t.delta
    /\ entries = t.entries
    /\ unused = t.unused
    /\ groups = t.groups
    /\ mem_locs = t.mem_locs
    /\ pending = t.pending
    /\ save_path = t.save_path
    /\ saved = t.saved
    /\ transport = t.transport
    /\ remote = t.remote
    /\ nextRid = t.nextRid
    /\ started = t.started
    /\ snap = t.snap
    /\ ncalls = t.ncalls
    /\ nwrites = t.nwrites
    /\ last = t.last

Becomes(t) ==
    /\ delta' = t.delta
    /\ entries' = t.entries
    /\ unused' = t.unused
    /\ groups' = t.groups
    /\ mem_locs' = t.mem_locs
    /\ pending' = t.pending
    /\ save_path' = t.save_path
    /\ saved' = t.saved
    /\ transport' = t.transport
    /\ remote' = t.remote
    /\ nextRid' = t.nextRid
    /\ started' = t.started
    /\ snap' = t.snap
    /\ ncalls' = t.ncalls
    /\ nwrites' = t.nwrites
    /\ last' = t.last

Store(s) == [entries |-> s.entries, unused |-> s.unused,
             groups |-> s.groups, mem_locs |-> s.mem_locs]

\* ------------------------------------------------------------ persistence
to_json(s) ==
    [delta |-> s.delta,
     used |-> [i \in DOMAIN s.entries |-> EntryToJson(s.entries[i])],
     unused |-> [i \in DOMAIN s.unused |-> EntryToJson(s.unused[i])]]

save(s) == IF ~s.save_path THEN s ELSE [s EXCEPT !.saved = to_json(s)]

\* ------------------------------------------------------------ record store
find(s, a, g, c) ==
    LET hits == {i \in DOMAIN s.entries :
                    /\ s.entries[i].addr = a
                    /\ s.entries[i].group = g
                    /\ s.entries[i].is_controller = c}
    IN IF hits = {} THEN None ELSE s.entries[SetMin(hits)]

find_mem_loc(s, m) == Get(s.entries, m)

find_group(s, g) == s.groups[g]

DbLen(s) == Len(s.entries)

add_entry(s, e) ==
    LET responders == s.groups[e.group]
        hits == {i \in DOMAIN responders : responders[i].addr = e.addr}
        s1 == IF e.in_use
              THEN [s EXCEPT
                     !.entries = DictSet(s.entries, e),
                     !.mem_locs = s.mem_locs \cup {e.mem_loc},
                     !.groups =
                        IF e.is_controller
                           /\ ~\E i \in DOMAIN responders :
                                  EntryEq(e, responders[i])
                        THEN [s.groups EXCEPT
                                 ![e.group] = Append(responders, e)]
                        ELSE s.groups]
              ELSE [s EXCEPT
                     !.unused = DictSet(s.unused, e),
                     !.mem_locs = s.mem_locs \cup {e.mem_loc},
                     !.groups =
                        IF e.is_controller /\ hits # {}
                        THEN [s.groups EXCEPT
                                 ![e.group] =
                                     RemoveAt(responders, SetMin(hits))]
                        ELSE s.groups]
    IN save(s1)

clear(s) ==
    [s EXCEPT !.delta = None, !.entries = <<>>, !.unused = <<>>,
              !.groups = [g \in Groups |-> <<>>], !.mem_locs = {},
              !.saved = IF s.save_path THEN NoDoc ELSE s.saved]

set_delta(s, d) ==
    LET s1 == [s EXCEPT !.delta = d]
    IN IF d # None THEN save(s1) ELSE s1

set_path(s, path) == [s EXCEPT !.save_path = path]

\* ------------------------------------------------- transport and callbacks
\* protocol.send(msg, msg_handler): the exchange is handed to the transport.
send(s, h) ==
    [s EXCEPT !.transport = s.transport \cup {h},
              !.nwrites[h.rid] = s.nwrites[h.rid] + 1,
              !.last.sent = Append(s.last.sent, h.entry)]

\* The caller's on_done(success, message, entry).
on_done(s, rid, success, e) ==
    [s EXCEPT !.ncalls[rid] = s.ncalls[rid] + 1,
              !.last.done = Append(s.last.done,
                                   [rid |-> rid, success |-> success,
                                    entry |-> e])]

\* --------------------------------------------------- _add_using_unused
_add_using_unused(s, r) ==
    LET k == SetMax(Keys(s.unused))
        e == update_from(Get(s.unused, k), r.addr, r.group, r.is_controller)
        s1 == [s EXCEPT !.unused = DictPop(s.unused, k),
                        !.snap[r.rid] = Store(s),
                        !.started[r.rid].how = "reuse"]
    IN send(s1, [rid |-> r.rid, entry |-> e, next |-> <<>>])

\* ------------------------------------------------------ _add_using_new
\* _add_using_new that rewrites the previous last record first.
add_using_new_reversed(s, r) ==
    LET last_entry == find_mem_loc(s, SetMin(s.mem_locs))
    IN IF last_entry = None
       THEN [s EXCEPT !.started[r.rid].how = "inconsistent"]
       ELSE LET e == MkEntry(r.addr, r.group, r.is_controller,
                             last_entry.mem_loc - RecWidth, TRUE, TRUE)
                new_last == [last_entry EXCEPT !.is_last_rec = FALSE]
                s1 == [s EXCEPT !.snap[r.rid] = Store(s),
                                !.started[r.rid].how = "grow"]
            IN send(s1, [rid |-> r.rid, entry |-> new_last,
                         next |-> <<e>>])

_add_using_new(s, r) ==
    LET last_entry == find_mem_loc(s, SetMin(s.mem_locs))
    IN IF last_entry = None
       THEN [s EXCEPT !.started[r.rid].how = "inconsistent"]
       ELSE LET e == MkEntry(r.addr, r.group, r.is_controller,
                             last_entry.mem_loc - RecWidth, TRUE, TRUE)
                new_last == [last_entry EXCEPT !.is_last_rec = FALSE]
                s1 == [s EXCEPT !.snap[r.rid] = Store(s),
                                !.started[r.rid].how = "grow"]
            IN send(s1, [rid |-> r.rid, entry |-> e,
                         next |-> <<new_last>>])

\* ------------------------------------------------------- _add_on_device
PushMarker(s) ==
    IF s.pending = <<>> THEN [s EXCEPT !.pending = <<Marker>>] ELSE s

\* _add_on_device without the "record already exists" return.
add_without_exists_check(s, r) ==
    LET s0 == [s EXCEPT !.last.ran = r, !.last.at_run = Store(s)]
    IN IF Len(s.entries) = 0
       THEN [s0 EXCEPT !.started[r.rid].how = "assert"]
       ELSE IF Len(s.unused) # 0
       THEN PushMarker(_add_using_unused(s0, r))
       ELSE PushMarker(_add_using_new(s0, r))

_add_on_device(s, r) ==
    LET e == find(s, r.addr, r.group, r.is_controller)
        s0 == [s EXCEPT !.last.ran = r, !.last.at_run = Store(s)]
    IN IF e # None
       THEN on_done([s0 EXCEPT !.started[r.rid].how = "exists"],
                    r.rid, TRUE, e)
       ELSE IF Len(s.entries) = 0
       THEN \* assert len(self.entries) raises
            [s0 EXCEPT !.started[r.rid].how = "assert"]
       ELSE IF Len(s.unused) # 0
       THEN PushMarker(_add_using_unused(s0, r))
       ELSE PushMarker(_add_using_new(s0, r))

\* ---------------------------------------------------- _delete_on_device
_delete_on_device(s, r) ==
    LET new_entry == [r.entry EXCEPT !.in_use = FALSE]
        s0 == [s EXCEPT !.last.ran = r, !.last.at_run = Store(s),
                        !.snap[r.rid] = Store(s),
                        !.started[r.rid].how = "delete"]
    IN PushMarker(send(s0, [rid |-> r.rid, entry |-> new_entry,
                            next |-> <<>>]))

\* Calling self._pending[0](): a functools.partial of one of the two.
RunPending(s, r) ==
    IF r.op = "add" THEN _add_on_device(s, r)
    ELSE IF r.op = "del" THEN _delete_on_device(s, r)
    ELSE s

\* done_cb of _add_on_device and of _delete_on_device (the same code).
done_cb(s, rid, success, e) ==
    IF s.pending = <<>> THEN s
    ELSE LET s1 == [s EXCEPT !.pending = Tail(s.pending),
                             !.snap[rid] = None,
                             !.last.snap = s.snap[rid],
                             !.last.at_done = Store(s)]
         IN IF s1.pending # <<>>
            THEN RunPending(s1, Head(s1.pending))
            ELSE on_done(s1, rid, success, e)

\* ----------------------------------------------- handler.DeviceDbModify
RemotePut(tbl, e) == {x \in tbl : x.mem_loc # e.mem_loc} \cup {e}

\* The device acknowledged the write of h.entry.
msg_ack(s, h) ==
    LET s1 == add_entry([s EXCEPT !.transport = s.transport \ {h},
                                  !.remote = RemotePut(s.remote, h.entry)],
                        h.entry)
    IN IF h.next # <<>>
       THEN send(s1, [rid |-> h.rid, entry |-> Head(h.next),
                      next |-> Tail(h.next)])
       ELSE done_cb(s1, h.rid, TRUE, h.entry)

\* The write was not acknowledged.
msg_nak(s, h) ==
    done_cb([s EXCEPT !.transport = s.transport \ {h}], h.rid, FALSE, None)

\* ------------------------------------------------------ public requests
\* add_on_device that starts the request even when one is pending.
add_without_pending_check(s, a, g, c) ==
    _add_on_device([s EXCEPT !.nextRid = s.nextRid + 1],
                   [op |-> "add", rid |-> s.nextRid, addr |-> a, group |-> g,
                    is_controller |-> c])

\* add_on_device that defers a request in front of the ones already waiting.
add_defer_at_front(s, a, g, c) ==
    LET r == [op |-> "add", rid |-> s.nextRid, addr |-> a, group |-> g,
              is_controller |-> c]
        s0 == [s EXCEPT !.nextRid = s.nextRid + 1]
    IN IF s.pending = <<>>
       THEN _add_on_device(s0, r)
       ELSE [s0 EXCEPT !.pending = <<Head(s.pending), r>> \o Tail(s.pending),
                       !.started[r.rid] = [how |-> "queued",
                                           deferred |-> TRUE]]

add_on_device(s, a, g, c) ==
    LET r == [op |-> "add", rid |-> s.nextRid, addr |-> a, group |-> g,
              is_controller |-> c]
        s0 == [s EXCEPT !.nextRid = s.nextRid + 1]
    IN IF s.pending = <<>>
       THEN _add_on_device(s0, r)
       ELSE [s0 EXCEPT !.pending = Append(s.pending, r),
                       !.started[r.rid] = [how |-> "queued",
                                           deferred |-> TRUE]]

delete_on_device(s, e) ==
    LET r == [op |-> "del", rid |-> s.nextRid, entry |-> e]
        s0 == [s EXCEPT !.nextRid = s.nextRid + 1]
    IN IF s.pending = <<>>
       THEN _delete_on_device(s0, r)
       ELSE [s0 EXCEPT !.pending = Append(s.pending, r),
                       !.started[r.rid] = [how |-> "queued",
                                           deferred |-> TRUE]]

\* ---------------------------------------------------------------- from_json
RECURSIVE AddAll(_, _)
AddAll(s, ds) ==
    IF ds = <<>> THEN s
    ELSE AddAll(add_entry(s, EntryFromJson(Head(ds))), Tail(ds))

\* What a step did: the call made (act, rid; for the transport's calls the
\* entry of the write reported on), the entries it handed to the transport,
\* the on_done calls it made, the request it started (ran, with the record
\* store at that moment) and, when it completed an exchange, the record
\* store at the start of that request and at its completion.
Event(act, rid, e) ==
    [act |-> act, rid |-> rid, entry |-> e, sent |-> <<>>, done |-> <<>>,
     ran |-> NoReq, at_run |-> None, snap |-> None, at_done |-> None]

\* The state after Device(addr, path).
Constructed(path) ==
    [delta |-> None, entries |-> <<>>, unused |-> <<>>,
     groups |-> [g \in Groups |-> <<>>], mem_locs |-> {}, pending |-> <<>>,
     save_path |-> path, saved |-> NoDoc, transport |-> {}, remote |-> {},
     nextRid |-> 1,
     started |-> [r \in Rids |-> [how |-> "none", deferred |-> FALSE]],
     snap |-> [r \in Rids |-> None],
     ncalls |-> [r \in Rids |-> 0],
     nwrites |-> [r \in Rids |-> 0],
     last |-> Event("init", 0, None)]

from_json(data, path) ==
    AddAll(AddAll([Constructed(path) EXCEPT !.delta = data.delta],
                  data.used),
           data.unused)

\* ------------------------------------------------------------------ actions
Call(act, rid, e) == [Cur EXCEPT !.last = Event(act, rid, e)]

AddEntryLocal ==
    \E m \in LocalLocs, a \in Peers, g \in Groups, c \in BOOLEAN,
       u \in BOOLEAN, l \in BOOLEAN :
        /\ nLocal < MaxLocal
        /\ nLocal' = nLocal + 1
        /\ Becomes(add_entry(Call("add_entry", 0, MkEntry(a, g, c, m, u, l)), MkEntry(a, g, c, m, u, l)))

Clear ==
    /\ nLocal < MaxLocal
    /\ nLocal' = nLocal + 1
    /\ Becomes(clear(Call("clear", 0, None)))

AddOnDevice ==
    \E a \in Peers, g \in Groups, c \in BOOLEAN :
        /\ nextRid <= MaxReqs
        /\ UNCHANGED nLocal
        /\ Becomes(add_on_device(Call("add_on_device", nextRid, None), a, g, c))

DeleteOnDevice ==
    \E e \in Values(entries) :
        /\ nextRid <= MaxReqs
        /\ UNCHANGED nLocal
        /\ Becomes(delete_on_device(Call("delete_on_device", nextRid, None), e))

Ack ==
    \E h \in transport :
        /\ UNCHANGED nLocal
        /\ Becomes(msg_ack(Call("ack", h.rid, h.entry), h))

Nak ==
    \E h \in transport :
        /\ UNCHANGED nLocal
        /\ Becomes(msg_nak(Call("nak", h.rid, h.entry), h))

\* ----------------------------------------------------------- specifications
\* Every public operation on a database constructed empty.
Init ==
    /\ nLocal = 0
    /\ \E path \in BOOLEAN : Becomes0(Constructed(path))

Next == AddEntryLocal \/ Clear \/ AddOnDevice \/ DeleteOnDevice \/ Ack \/ Nak

Spec == Init /\ [][Next]_allvars

\* The add/delete requests on a mirror loaded from the device's table.
TableRec(i, n, u) ==
    MkEntry(1 + ((i - 1) % MaxPeer), 1 + ((i - 1) % MaxGroup), i % 2 = 1,
            TopLoc - RecWidth * (i - 1), u, i = n)

\* Tables of 1..MaxLocs records from TopLoc down, the lowest one flagged as
\* the last record; record i links peer i in group i, the odd records as
\* controller.  Every record is in use or not, and no two records in use
\* hold the same link.
Tables ==
    {tbl \in UNION {{[i \in 1..n |-> TableRec(i, n, u[i])] :
                        u \in [1..n -> BOOLEAN]} : n \in 1..MaxLocs} :
        \A i, j \in DOMAIN tbl :
            i # j /\ tbl[i].in_use /\ tbl[j].in_use
                => ~SameLink(tbl[i], tbl[j])}

DocOf(tbl) ==
    [delta |-> [val |-> 1],
     used |-> SelectSeq([i \in DOMAIN tbl |-> EntryToJson(tbl[i])],
                        LAMBDA d : d.db_flags.in_use),
     unused |-> SelectSeq([i \in DOMAIN tbl |-> EntryToJson(tbl[i])],
                          LAMBDA d : ~d.db_flags.in_use)]

InitSync ==
    /\ nLocal = MaxLocal
    /\ \E tbl \in Tables :
          Becomes0([from_json(DocOf(tbl), TRUE) EXCEPT
                       !.remote = Values(tbl)])

NextSync == AddOnDevice \/ DeleteOnDevice \/ Ack \/ Nak

SpecSync == InitSync /\ [][NextSync]_allvars

\* The requests on a loaded mirror with one more request, so that two
\* requests can wait behind the one in flight.
AddOnDeviceQueue ==
    \E a \in Peers, g \in Groups, c \in BOOLEAN :
        /\ nextRid <= MaxReqs + 1
        /\ UNCHANGED nLocal
        /\ Becomes(add_on_device(Call("add_on_device", nextRid, None), a, g, c))

DeleteOnDeviceQueue ==
    \E e \in Values(entries) :
        /\ nextRid <= MaxReqs + 1
        /\ UNCHANGED nLocal
        /\ Becomes(delete_on_device(Call("delete_on_device", nextRid, None), e))

NextQueue == AddOnDeviceQueue \/ DeleteOnDeviceQueue \/ Ack \/ Nak

SpecQueue == InitSync /\ [][NextQueue]_allvars

\* Every public operation, the ones that persist included, on a database
\* constructed empty, with or without a save path.
SetDelta ==
    \E d \in Deltas \cup {None} :
        /\ nLocal < MaxLocal
        /\ nLocal' = nLocal + 1
        /\ Becomes(set_delta(Call("set_delta", 0, None), d))

SetPath ==
    \E path \in BOOLEAN :
        /\ nLocal < MaxLocal
        /\ nLocal' = nLocal + 1
        /\ Becomes(set_path(Call("set_path", 0, None), path))

Save ==
    /\ nLocal < MaxLocal
    /\ nLocal' = nLocal + 1
    /\ Becomes(save(Call("save", 0, None)))

NextSave ==
    \/ AddEntryLocal \/ Clear \/ SetDelta \/ SetPath \/ Save
    \/ AddOnDevice \/ DeleteOnDevice \/ Ack \/ Nak

SpecSave == Init /\ [][NextSave]_allvars

\* ================================================================ claims
StoreNow == [entries |-> entries, unused |-> unused, groups |-> groups,
             mem_locs |-> mem_locs]

\* The entries in use of record store st that hold the link of request r.
LinkIn(st, r) == {e \in Values(st.entries) : SameLink(e, r)}

InFlight(r) == \E h \in transport : h.rid = r

\* The request was run and its command has completed.
Finished(r) ==
    /\ started[r].how \in {"exists", "reuse", "grow", "delete"}
    /\ ~InFlight(r)

\* C1: at most one remote exchange is outstanding at any time, and a request
\* that is waiting in the pending queue has sent no write.
C1_OneExchange ==
    /\ Cardinality(transport) <= 1
    /\ \A r \in Rids : started[r].how = "queued" => nwrites[r] = 0

\* A request that was deferred has its write at the transport.
C1_Witness == \E h \in transport : started[h.rid].deferred

\* C2: whenever no exchange is in flight the mirror agrees with the remote
\* table: same in-use slots in entries, same not-in-use slots in unused,
\* same records.
C2_MirrorAgrees ==
    transport = {} =>
        /\ Keys(entries) = {x.mem_loc : x \in {y \in remote : y.in_use}}
        /\ Keys(unused) = {x.mem_loc : x \in {y \in remote : ~y.in_use}}
        /\ \A x \in remote :
              Get(IF x.in_use THEN entries ELSE unused, x.mem_loc) = x

\* C3: when a write is not acknowledged, on_done(False, ...) is called and
\* the record store is as it was when the request was started.
C3_FailureLeavesState ==
    last.act = "nak" =>
        /\ \E i \in DOMAIN last.done :
              last.done[i].rid = last.rid /\ ~last.done[i].success
        /\ last.at_done = last.snap

\* C4: after the acknowledged delete of an in-use entry at slot s, s is in
\* unused and not in entries, the entry is in no group list, find() of its
\* link returns None, len() is one less, and one write was issued.
C4_DeleteAck ==
    (/\ last.act = "ack"
     /\ started[last.rid].how = "delete"
     /\ Get(last.snap.entries, last.entry.mem_loc)
           = [last.entry EXCEPT !.in_use = TRUE])
    => LET m == last.entry.mem_loc
           d == last.at_done
       IN /\ m \in Keys(d.unused)
          /\ m \notin Keys(d.entries)
          /\ \A g \in Groups : \A i \in DOMAIN d.groups[g] :
                d.groups[g][i].mem_loc # m
          /\ find(d, last.entry.addr, last.entry.group,
                  last.entry.is_controller) = None
          /\ Len(d.entries) = Len(last.snap.entries) - 1
          /\ nwrites[last.rid] = 1

\* C5: I1: the key sets of entries and unused are disjoint and their union
\* is _mem_locs.
C5_I1 ==
    /\ Keys(entries) \cap Keys(unused) = {}
    /\ Keys(entries) \cup Keys(unused) = mem_locs

\* C6: I2: every entry of groups[g] is a controller entry of group g and is
\* the entry stored in entries at its slot; no entry of unused is in a
\* group list.
C6_I2 ==
    /\ \A g \in Groups : \A i \in DOMAIN groups[g] :
          LET e == groups[g][i]
          IN e.is_controller /\ e.group = g /\ Get(entries, e.mem_loc) = e
    /\ \A g \in Groups : \A i \in DOMAIN groups[g] :
          groups[g][i] \notin Values(unused)

\* C7: once every issued request has finished, the pending queue is empty
\* (so that a later request starts at once).
C7_QueueDrains ==
    (\A r \in 1..(nextRid - 1) : Finished(r)) => pending = <<>>

\* C8: on_done is called exactly once for a request whose command has
\* completed.
C8_OnDoneOnce == \A r \in Rids : Finished(r) => ncalls[r] = 1

\* C9: an add request whose link is in entries when it is run calls
\* on_done(True, ..., the existing entry) in that step, sends nothing and
\* leaves the record store as it was; and no two entries in use hold the
\* same link.
C9_DuplicateAdd ==
    /\ (last.ran.op = "add" /\ LinkIn(last.at_run, last.ran) # {})
       => /\ \E i \in DOMAIN last.done :
                /\ last.done[i].rid = last.ran.rid
                /\ last.done[i].success
                /\ last.done[i].entry \in LinkIn(last.at_run, last.ran)
          /\ ncalls[last.ran.rid] = 1
          /\ nwrites[last.ran.rid] = 0
          /\ last.sent = <<>>
          /\ StoreNow = last.at_run
    /\ \A i, j \in DOMAIN entries :
          i # j => ~SameLink(entries[i], entries[j])

\* A deferred add, run when the earlier add of the same link was
\* acknowledged, found the link present.
C9_Witness ==
    /\ last.act = "ack"
    /\ last.ran.op = "add"
    /\ SameLink(last.entry, last.ran)
    /\ started[last.ran.rid] = [how |-> "exists", deferred |-> TRUE]

\* C10: a non-duplicate add started with unused non-empty issues exactly
\* one write, at the highest slot of unused; after the acknowledgment the
\* entry is in entries at that slot, the slot is not in unused, and
\* _mem_locs is as before.
C10_ReuseHighest ==
    /\ (/\ last.ran.op = "add"
        /\ last.at_run.unused # <<>>
        /\ LinkIn(last.at_run, last.ran) = {})
       => /\ Len(last.sent) = 1
          /\ last.sent[1].mem_loc = SetMax(Keys(last.at_run.unused))
          /\ SameLink(last.sent[1], last.ran)
          /\ last.sent[1].in_use
    /\ (last.act = "ack" /\ started[last.rid].how = "reuse")
       => /\ Get(last.at_done.entries, last.entry.mem_loc) = last.entry
          /\ last.entry.mem_loc \notin Keys(last.at_done.unused)
          /\ last.at_done.mem_locs = last.snap.mem_locs
          /\ nwrites[last.rid] = 1

\* The entries of record store st, in use or not, flagged as last record.
LastRecs(st) ==
    {e \in Values(st.entries) \cup Values(st.unused) : e.is_last_rec}

\* C11: a non-duplicate add started with unused empty sends the write of
\* the new entry at slot min(_mem_locs) - 8; when its second write has been
\* acknowledged exactly one entry of the database is flagged as last
\* record, and it is the entry at the new minimum slot, one record width
\* below the minimum at the start of the request.
C11_GrowthAtNewMin ==
    /\ (/\ last.ran.op = "add"
        /\ last.at_run.unused = <<>>
        /\ LinkIn(last.at_run, last.ran) = {})
       => /\ last.sent # <<>>
          /\ last.sent[1].mem_loc = SetMin(last.at_run.mem_locs) - RecWidth
          /\ SameLink(last.sent[1], last.ran)
    /\ (/\ last.act = "ack"
        /\ started[last.rid].how = "grow"
        /\ last.at_done # None)
       => /\ Cardinality(LastRecs(last.at_done)) = 1
          /\ \A e \in LastRecs(last.at_done) :
                e.mem_loc = SetMin(last.at_done.mem_locs)
          /\ SetMin(last.at_done.mem_locs)
                = SetMin(last.snap.mem_locs) - RecWidth

\* C12: deferred requests are started in the order they were issued: a
\* deferred request has been started only if every request deferred before
\* it has been run and has no exchange in flight, the requests waiting in
\* the queue are in the order of issue, and the call that defers a request
\* neither runs it nor sends anything.
C12_Fifo ==
    /\ \A a, b \in Rids :
          (/\ a < b
           /\ started[a].deferred
           /\ started[b].deferred
           /\ started[b].how # "queued")
          => Finished(a)
    /\ \A i, j \in DOMAIN pending :
          (i < j /\ pending[j].op # "marker")
          => (pending[i].op = "marker" \/ pending[i].rid < pending[j].rid)
    /\ (/\ last.act \in {"add_on_device", "delete_on_device"}
        /\ started[last.rid].deferred)
       => /\ last.ran = NoReq
          /\ last.sent = <<>>
          /\ started[last.rid].how = "queued"
          /\ nwrites[last.rid] = 0

\* Two requests were deferred and the write of the later one is in flight.
C12_Witness ==
    \E a, b \in Rids :
        /\ a < b
        /\ started[a].deferred
        /\ started[b].deferred
        /\ InFlight(b)

\* C13: while the first write of a request (reuse, growth or delete) is at
\* the transport and not yet acknowledged, entries, unused, groups and
\* _mem_locs are as they were when the request was started.
C13_NoEarlyMutation ==
    \A h \in transport :
        nwrites[h.rid] = 1 => StoreNow = snap[h.rid]

\* The entries stored for slot m, in entries and in unused.
StoredAt(es, un, m) ==
    {<<"entries", e>> : e \in {x \in Values(es) : x.mem_loc = m}}
        \cup {<<"unused", e>> : e \in {x \in Values(un) : x.mem_loc = m}}

\* C14: when add_entry inserts an entry at a slot that already holds one
\* (in use or not, either way round), afterwards exactly one entry is
\* stored for that slot across entries and unused, it is the inserted one,
\* and _mem_locs grew by at most one; inserting the entry that was just
\* inserted leaves the record store as it is.
C14_LaterWins ==
    [][/\ (/\ last'.act = "add_entry"
           /\ last'.entry.mem_loc \in Keys(entries) \cup Keys(unused))
          => /\ StoredAt(entries', unused', last'.entry.mem_loc)
                   = {<<IF last'.entry.in_use THEN "entries" ELSE "unused",
                        last'.entry>>}
             /\ Cardinality(mem_locs') <= Cardinality(mem_locs) + 1
       /\ (/\ last.act = "add_entry"
           /\ last'.act = "add_entry"
           /\ last'.entry = last.entry)
          => StoreNow' = StoreNow]_allvars

\* from_json(to_json()) of the current database.
RoundTrip == from_json(to_json(Cur), FALSE)

\* C15: from_json(to_json(db)) holds the same entries, the same unused
\* entries, the same entries in every group list (in any order) and the
\* same delta as db.
C15_RoundTrip ==
    /\ Values(RoundTrip.entries) = Values(entries)
    /\ Values(RoundTrip.unused) = Values(unused)
    /\ \A g \in Groups :
          Values(RoundTrip.groups[g]) = Values(groups[g])
    /\ RoundTrip.delta = delta

\* C16: with a save path set, right after add_entry, after set_delta with
\* a delta that is not None and after an acknowledged write the saved
\* document is to_json() of the database; set_delta(None), and save()
\* with no save path, leave the saved document as it is.
C16_Persisted ==
    [][/\ (/\ save_path'
           /\ \/ last'.act = "add_entry"
              \/ last'.act = "set_delta" /\ delta' # None
              \/ last'.act = "ack")
          => saved' = to_json(Cur)'
       /\ (last'.act = "set_delta" /\ delta' = None) => saved' = saved
       /\ (last'.act = "save" /\ ~save_path) => saved' = saved]_allvars

\* C17: the step in which a growth add finds no entry at min(_mem_locs)
\* sends no write, leaves entries, unused, groups and _mem_locs as they
\* were when the add was started, and leaves the pending queue free for
\* the next request: empty, or with an exchange in flight that will
\* advance it.
C17_InconsistencyAborts ==
    (last.ran.op = "add" /\ started[last.ran.rid].how = "inconsistent")
    => /\ last.sent = <<>>
       /\ StoreNow = last.at_run
       /\ pending = <<>> \/ transport # {}

\* The records of the device's table flagged as last record.
RemoteLast == {x \in remote : x.is_last_rec}

\* C18: the step that starts a growth add sends one write, of the new
\* entry flagged as last record; the write that clears the flag on the
\* previous last record is at the transport only when the device holds
\* the new record, flagged as last; and the device's table always holds
\* at least one record flagged as last.
C18_NewLastFirst ==
    /\ (last.ran.op = "add" /\ started[last.ran.rid].how = "grow")
       => /\ Len(last.sent) = 1
          /\ last.sent[1].is_last_rec
          /\ last.sent[1].mem_loc
                = SetMin(last.at_run.mem_locs) - RecWidth
    /\ \A h \in transport :
          (started[h.rid].how = "grow" /\ ~h.entry.is_last_rec)
          => /\ nwrites[h.rid] = 2
             /\ \E x \in RemoteLast :
                   x.mem_loc = h.entry.mem_loc - RecWidth
    /\ RemoteLast # {}

\* The second write of a growth add was not acknowledged.
C18_Witness ==
    /\ last.act = "nak"
    /\ started[last.rid].how = "grow"
    /\ nwrites[last.rid] = 2

\* C19: no add request reaches the branch of _add_using_new in which no
\* entry is found at min(_mem_locs).
C19_NoInconsistency ==
    \A r \in Rids : started[r].how # "inconsistent"

\* C20: the pending queue is non-empty exactly when an exchange is at the
\* transport, and its head stands for the request of that exchange: the
\* dummy entry for a request that was started at once, the request itself
\* for one that was deferred.
C20_QueueIffExchange ==
    /\ (pending # <<>>) <=> (transport # {})
    /\ \A h \in transport :
          /\ pending # <<>>
          /\ IF Head(pending) = Marker
             THEN ~started[h.rid].deferred
             ELSE Head(pending).rid = h.rid

\* C21: every controller entry in use stored in entries is listed (same
\* peer, same slot) in the group list of its group.
C21_GroupIndexComplete ==
    \A e \in Values(entries) :
        (e.in_use /\ e.is_controller)
        => \E i \in DOMAIN find_group(Cur, e.group) :
              EntryEq(find_group(Cur, e.group)[i], e)

\* C22: no add request that reaches strategy selection finds entries
\* empty (the assertion of _add_on_device never fails).
C22_AssertHolds ==
    \A r \in Rids : started[r].how # "assert"

\* The record the device's table holds at slot m.
RemoteAt(m) == {x \in remote : x.mem_loc = m}

\* C23: a write of an add request at the transport never replaces the
\* link of a record the device holds in use: a reuse write goes to a slot
\* the device holds as not in use, the first write of a growth goes below
\* every slot of the device's table, and the follow-up write of a growth
\* differs from the device's record at its slot in the last-record flag
\* only.
C23_AddKeepsInUse ==
    \A h \in transport :
        /\ started[h.rid].how \in {"reuse", "grow"}
           => \A x \in RemoteAt(h.entry.mem_loc) :
                 x.in_use => SameLink(x, h.entry)
        /\ started[h.rid].how = "reuse"
           => /\ RemoteAt(h.entry.mem_loc) # {}
              /\ \A x \in RemoteAt(h.entry.mem_loc) : ~x.in_use
        /\ (started[h.rid].how = "grow" /\ h.next # <<>>)
           => \A x \in remote : h.entry.mem_loc < x.mem_loc
        /\ (started[h.rid].how = "grow" /\ h.next = <<>>)
           => RemoteAt(h.entry.mem_loc)
                 = {[h.entry EXCEPT !.is_last_rec = TRUE]}

====
